---- MODULE Spec2Model ----
(***************************************************************************)
(* The Parrot facade of src/src/parrot/parrot.py: five Queue.Queue         *)
(* channels between the calling threads and the four worker threads        *)
(* (camera, receiver, remote, controller), the cached values self.image,   *)
(* self.navdata and self.cmd, the command intents, the health poll of the  *)
(* remote, and tracking and feature extraction on the cached frame.        *)
(*                                                                         *)
(* The worker threads themselves (camera.Camera, receiver.Receiver,        *)
(* remote.Remote, controller.Controller), the tracker and the window grid  *)
(* (camera.Camera.get_windows) are not part of parrot.py; they are         *)
(* modelled from the design document (AcquisitionThread,                   *)
(* FreshnessChannel.put, Tracker, WindowGrid).                             *)
(***************************************************************************)
EXTENDS Integers, Sequences, FiniteSets, TLC

VARIABLES
    pc,             \* pc[t] = [op, at]: the call thread t is in, and where
    arg,            \* arg[t]: the argument of that call
    tmp,            \* tmp[t]: the value the thread holds (result of get(), cmd_json)
    ret,            \* ret[t]: what the last call that returned a value returned
    raised,         \* raised[t]: the exception that ended t's last call, or "none"
    calls,          \* number of facade calls on a channel made so far
    thread,         \* thread[x]: "none" (not started), "running", "stopped"
    produced,       \* produced[x]: units the acquisition thread x has read so far
    image_queue, nav_queue, remote_queue, cmd_queue, remote_bucket,
    image, navdata, cmd,    \* the cached values
    default_cmd,    \* self.default_cmd
    ctrlGot,        \* the command the controller thread received last, if any
    removed,        \* removed[x]: the item a facade call took last from x's channel
    tracking,       \* self.tracking
    extractors,     \* whether the self.extractor_* attributes are set
    geom,           \* frame size, grid shape and overlap handed to get_windows
    windows         \* the grid get_windows returned, if any

\* the state of tracking, feature extraction and the window grid
featVars == <<tracking, extractors, geom, windows>>

vars == <<pc, arg, tmp, ret, raised, calls, thread, produced,
          image_queue, nav_queue, remote_queue, cmd_queue, remote_bucket,
          image, navdata, cmd, default_cmd, ctrlGot, removed, featVars>>

----------------------------------------------------------------------------
(* Bounds of the model *)

MaxCalls == 3       \* facade calls on a channel in one run
MaxUnits == 3       \* units (frames, samples, commands, errors) read by the threads
MaxSpeed == 1       \* speeds are 1..MaxSpeed (in tenths)
MaxExtent == 5      \* frames are 1..MaxExtent pixels wide and high
MaxGrid == 3        \* grids have 1..MaxGrid columns and rows

(* Program constants *)

NoneVal == 0                \* None
RemoteQueueMaxsize == 1     \* Queue.Queue(maxsize=1)
BucketMaxsize == 0          \* Queue.Queue(): no capacity
ImageQueueMaxsize == 1
\* faulty variant: cmd_queue created like remote_bucket, without maxsize
CmdQueueNoMaxsize == BucketMaxsize
CmdQueueMaxsize == 1
NavQueueMaxsize == 1

MainThread == "main"
Consumers == {"main", "second"}
Producers == {"camera", "receiver", "remote"}
Workers == Producers \cup {"controller"}
Speeds == 1..MaxSpeed
cameras == {0, 3, 4}        \* FRONT, BOTTOM, CUSTOM

Idle == [op |-> "none", at |-> "idle"]

\* self.tracking = None
NoTracking == <<>>

\* no call of get_windows yet
NoGeom == [W |-> 0, H |-> 0, C |-> 0, R |-> 0, f |-> [num |-> 0, den |-> 1]]

----------------------------------------------------------------------------
(* Queue.Queue *)

\* Queue.full(): 0 < maxsize <= qsize()
QueueFull(q, maxsize) == maxsize > 0 /\ Len(q) >= maxsize

\* Queue.put(item) as the facade calls it (block=True): possible when not full
QueuePut(q, item) == Append(q, item)

\* FreshnessChannel.put of the worker threads: never blocks, a pending item
\* is discarded when the queue is full
OverwritePut(q, maxsize, item) ==
    IF QueueFull(q, maxsize) THEN Append(Tail(q), item) ELSE Append(q, item)

----------------------------------------------------------------------------
(* Commands *)

BoolKeys == {"T", "L", "S"}
CmdKeys == {"X", "Y", "Z", "R", "C", "T", "L", "S"}

\* json.dumps of a command dict: numbers stay numbers, True/False become the
\* JSON literals true/false
JsonDumps(c) ==
    [k \in CmdKeys |-> IF k \in BoolKeys
                          THEN (IF c[k] THEN "true" ELSE "false")
                          ELSE c[k]]

\* json.loads, as the controller side reads the command back
JsonLoads(j) ==
    [k \in CmdKeys |-> IF k \in BoolKeys THEN j[k] = "true" ELSE j[k]]

\* Parrot.__init__: self.default_cmd
DefaultCmd ==
    [X |-> 0, Y |-> 0, Z |-> 0, R |-> 0, C |-> 0,
     T |-> FALSE, L |-> FALSE, S |-> FALSE]

Intents == {"land", "takeoff", "stop", "turn_left", "turn_right",
            "fly_up", "fly_down", "fly_forward", "fly_backward",
            "fly_left", "fly_right"}
FlagIntents == {"land", "takeoff", "stop"}

\* faulty variant: the emergency stop also asks for a landing
IntentCmdStopLands(d, i, s) ==
    CASE i = "land"         -> [d EXCEPT !.L = TRUE]
      [] i = "takeoff"      -> [d EXCEPT !.T = TRUE]
      [] i = "stop"         -> [d EXCEPT !.S = TRUE, !.L = TRUE]
      [] i = "turn_left"    -> [d EXCEPT !.R = -s]
      [] i = "turn_right"   -> [d EXCEPT !.R = s]
      [] i = "fly_up"       -> [d EXCEPT !.Z = s]
      [] i = "fly_down"     -> [d EXCEPT !.Z = -s]
      [] i = "fly_forward"  -> [d EXCEPT !.Y = s]
      [] i = "fly_backward" -> [d EXCEPT !.Y = -s]
      [] i = "fly_left"     -> [d EXCEPT !.X = -s]
      [] i = "fly_right"    -> [d EXCEPT !.X = s]

\* faulty variant: turn_left and turn_right with the sign exchanged
IntentCmdSignSlip(d, i, s) ==
    CASE i = "land"         -> [d EXCEPT !.L = TRUE]
      [] i = "takeoff"      -> [d EXCEPT !.T = TRUE]
      [] i = "stop"         -> [d EXCEPT !.S = TRUE]
      [] i = "turn_left"    -> [d EXCEPT !.R = s]
      [] i = "turn_right"   -> [d EXCEPT !.R = -s]
      [] i = "fly_up"       -> [d EXCEPT !.Z = s]
      [] i = "fly_down"     -> [d EXCEPT !.Z = -s]
      [] i = "fly_forward"  -> [d EXCEPT !.Y = s]
      [] i = "fly_backward" -> [d EXCEPT !.Y = -s]
      [] i = "fly_left"     -> [d EXCEPT !.X = -s]
      [] i = "fly_right"    -> [d EXCEPT !.X = s]

\* cmd = self.default_cmd.copy(); cmd[field] = value
IntentCmd(d, i, s) ==
    CASE i = "land"         -> [d EXCEPT !.L = TRUE]
      [] i = "takeoff"      -> [d EXCEPT !.T = TRUE]
      [] i = "stop"         -> [d EXCEPT !.S = TRUE]
      [] i = "turn_left"    -> [d EXCEPT !.R = -s]
      [] i = "turn_right"   -> [d EXCEPT !.R = s]
      [] i = "fly_up"       -> [d EXCEPT !.Z = s]
      [] i = "fly_down"     -> [d EXCEPT !.Z = -s]
      [] i = "fly_forward"  -> [d EXCEPT !.Y = s]
      [] i = "fly_backward" -> [d EXCEPT !.Y = -s]
      [] i = "fly_left"     -> [d EXCEPT !.X = -s]
      [] i = "fly_right"    -> [d EXCEPT !.X = s]

\* the flag intents take no speed
IntentArgs(i) == IF i \in FlagIntents THEN {NoneVal} ELSE Speeds

\* commands a caller hands to send_cmd
SampleCmds == {[DefaultCmd EXCEPT !.X = 1, !.R = -1],
               [DefaultCmd EXCEPT !.T = TRUE]}

----------------------------------------------------------------------------
(* The window grid *)

\* Parrot.__init__: self.window_size (columns, rows) and self.overlap
window_size == <<15, 7>>
overlap == [num |-> 1, den |-> 2]

\* the frames of the camera thread: width and height in pixels
FrameShape == <<160, 112>>

\* what init_feature_extract and get_visual_features hand to get_windows
FrameGeom == [W |-> FrameShape[1], H |-> FrameShape[2],
              C |-> window_size[1], R |-> window_size[2], f |-> overlap]

Ceil(a, b) == (a + b - 1) \div b

Min(a, b) == IF a < b THEN a ELSE b

\* n windows that overlap by f of their size span 1 + (n - 1)(1 - f) window
\* sizes; in units of 1/f.den
AxisUnits(n, f) == f.den + (n - 1) * (f.den - f.num)

\* faulty variant: the nominal window size rounded down
NominalFloor(L, n, f) == (L * f.den) \div AxisUnits(n, f)

\* the nominal window size along an axis of L pixels, rounded up so that the
\* trailing window reaches the edge of the frame
Nominal(L, n, f) == Ceil(L * f.den, AxisUnits(n, f))

\* the distance between the starts of adjacent windows: they overlap by f of
\* the nominal size
Stride(L, n, f) == Ceil(Nominal(L, n, f) * (f.den - f.num), f.den)

AxisStart(L, n, f, i) == (i - 1) * Stride(L, n, f)

\* windows at the trailing edge are clipped to the frame
AxisEnd(L, n, f, i) == Min(AxisStart(L, n, f, i) + Nominal(L, n, f), L)

\* configuration error: the nominal size is not positive, or a window has
\* no extent left inside the frame
AxisError(L, n, f) ==
    \/ Nominal(L, n, f) <= 0
    \/ \E i \in 1..n : AxisStart(L, n, f, i) >= L

\* camera.Camera.get_windows: windows[r][c] = (x0, x1, y0, y1), the pixels
\* image[y0:y1, x0:x1]; <<>> stands for the configuration error
GridError(g) == AxisError(g.W, g.C, g.f) \/ AxisError(g.H, g.R, g.f)

get_windows(g) ==
    IF GridError(g)
       THEN <<>>
       ELSE [r \in 1..g.R |-> [c \in 1..g.C |->
                <<AxisStart(g.W, g.C, g.f, c), AxisEnd(g.W, g.C, g.f, c),
                  AxisStart(g.H, g.R, g.f, r), AxisEnd(g.H, g.R, g.f, r)>>]]

Overlaps == {[num |-> 0, den |-> 1], [num |-> 1, den |-> 2],
             [num |-> 2, den |-> 3]}

\* the geometries get_windows is applied to
Geoms == [W : 1..MaxExtent, H : 1..MaxExtent, C : 1..MaxGrid, R : 1..MaxGrid,
          f : Overlaps]

----------------------------------------------------------------------------
(* Channels by the thread that feeds them *)

Q(x) == CASE x = "camera"   -> image_queue
          [] x = "receiver" -> nav_queue
          [] x = "remote"   -> remote_queue

Maxsize(x) == CASE x = "camera"   -> ImageQueueMaxsize
                [] x = "receiver" -> NavQueueMaxsize
                [] x = "remote"   -> RemoteQueueMaxsize

Cache(x) == CASE x = "camera"   -> image
              [] x = "receiver" -> navdata
              [] x = "remote"   -> cmd

SetQ(x, v) ==
    /\ image_queue'  = IF x = "camera"   THEN v ELSE image_queue
    /\ nav_queue'    = IF x = "receiver" THEN v ELSE nav_queue
    /\ remote_queue' = IF x = "remote"   THEN v ELSE remote_queue

SetCache(x, v) ==
    /\ image'   = IF x = "camera"   THEN v ELSE image
    /\ navdata' = IF x = "receiver" THEN v ELSE navdata
    /\ cmd'     = IF x = "remote"   THEN v ELSE cmd

\* the channel a facade call reads
ChannelOf(op) ==
    CASE op \in {"init_camera", "get_image"}     -> "camera"
      [] op \in {"init_receiver", "get_navdata"} -> "receiver"
      [] op \in {"init_remote", "get_cmd"}       -> "remote"

InitOps == {"init_camera", "init_receiver", "init_remote"}
GetOps == {"get_image", "get_navdata", "get_cmd"}

UnitsRead == produced["camera"] + produced["receiver"] + produced["remote"]
             + Len(remote_bucket)

----------------------------------------------------------------------------
Init ==
    /\ pc = [t \in Consumers |-> Idle]
    /\ arg = [t \in Consumers |-> NoneVal]
    /\ tmp = [t \in Consumers |-> NoneVal]
    /\ ret = [t \in Consumers |-> NoneVal]
    /\ raised = [t \in Consumers |-> "none"]
    /\ calls = 0
    /\ thread = [x \in Workers |-> "none"]
    /\ produced = [x \in Producers |-> 0]
    /\ image_queue = <<>> /\ nav_queue = <<>> /\ remote_queue = <<>>
    /\ cmd_queue = <<>> /\ remote_bucket = <<>>
    /\ image = NoneVal /\ navdata = NoneVal /\ cmd = NoneVal
    /\ default_cmd = DefaultCmd
    /\ ctrlGot = <<>>
    /\ removed = [x \in Producers |-> NoneVal]
    /\ tracking = NoTracking
    /\ extractors = FALSE
    /\ geom = NoGeom
    /\ windows = <<>>

----------------------------------------------------------------------------
(* Steps of a calling thread *)

\* thread t, idle, makes its next call
Call(t) ==
    /\ pc[t].at = "idle"
    /\ calls < MaxCalls
    /\ calls' = calls + 1
    /\ ret' = [ret EXCEPT ![t] = NoneVal]

\* thread t, idle, makes a call that waits on no channel and fills none;
\* what such a call changes is bounded, it is not counted
Enter(t) ==
    /\ pc[t].at = "idle"
    /\ ret' = [ret EXCEPT ![t] = NoneVal]
    /\ UNCHANGED calls

\* the call goes on at position at, holding argument a and local value v
Goto(t, op, at, a, v) ==
    /\ pc' = [pc EXCEPT ![t] = [op |-> op, at |-> at]]
    /\ arg' = [arg EXCEPT ![t] = a]
    /\ tmp' = [tmp EXCEPT ![t] = v]
    /\ raised' = [raised EXCEPT ![t] = "none"]

\* the call ends with exception e
Raise(t, op, e) ==
    /\ pc' = [pc EXCEPT ![t] = [op |-> op, at |-> "idle"]]
    /\ arg' = [arg EXCEPT ![t] = NoneVal]
    /\ tmp' = [tmp EXCEPT ![t] = NoneVal]
    /\ raised' = [raised EXCEPT ![t] = e]

\* the call returns
Return(t) == Goto(t, pc[t].op, "idle", NoneVal, NoneVal)

\* faulty variant: the init call returns without grabbing the initial item
InitAcquisitionNoGrab(t, op) ==
    /\ Call(t)
    /\ thread[ChannelOf(op)] = "none"
    /\ thread' = [thread EXCEPT ![ChannelOf(op)] = "running"]
    /\ SetQ(ChannelOf(op), <<>>)
    /\ Goto(t, op, "idle", NoneVal, NoneVal)
    /\ UNCHANGED <<produced, cmd_queue, remote_bucket, image, navdata, cmd,
                   default_cmd, ctrlGot>>
    /\ UNCHANGED <<removed, featVars>>

\* init_remote / init_camera / init_receiver up to the blocking get():
\* create the queue(s), start the daemon thread
InitAcquisition(t, op) ==
    /\ Call(t)
    /\ thread[ChannelOf(op)] = "none"
    /\ thread' = [thread EXCEPT ![ChannelOf(op)] = "running"]
    /\ SetQ(ChannelOf(op), <<>>)
    /\ Goto(t, op, "get", NoneVal, NoneVal)
    /\ UNCHANGED <<produced, cmd_queue, remote_bucket, image, navdata, cmd,
                   default_cmd, ctrlGot>>
    /\ UNCHANGED <<removed, featVars>>

init_remote(t) == InitAcquisition(t, "init_remote")

init_camera(t) == InitAcquisition(t, "init_camera")

init_receiver(t) == InitAcquisition(t, "init_receiver")

\* init_controller: create cmd_queue, start the controller thread, return
init_controller(t) ==
    /\ Call(t)
    /\ thread["controller"] = "none"
    /\ thread' = [thread EXCEPT !["controller"] = "running"]
    /\ cmd_queue' = <<>>
    /\ Goto(t, "init_controller", "idle", NoneVal, NoneVal)
    /\ UNCHANGED <<produced, image_queue, nav_queue, remote_queue,
                   remote_bucket, image, navdata, cmd, default_cmd, ctrlGot>>
    /\ UNCHANGED <<removed, featVars>>

\* get_navdata / get_image / get_cmd up to the blocking get(); the queue
\* attribute does not exist before the init call
GetCall(t, op) ==
    /\ Call(t)
    /\ IF thread[ChannelOf(op)] = "none"
          THEN Raise(t, op, "AttributeError")
          ELSE Goto(t, op, "get", NoneVal, NoneVal)
    /\ UNCHANGED <<thread, produced, image_queue, nav_queue, remote_queue,
                   cmd_queue, remote_bucket, image, navdata, cmd,
                   default_cmd, ctrlGot>>
    /\ UNCHANGED <<removed, featVars>>

get_navdata(t) == GetCall(t, "get_navdata")

get_image(t) == GetCall(t, "get_image")

get_cmd(t) == GetCall(t, "get_cmd")

\* faulty variant: the head is read and left in the queue
QueueGetPeek(t) ==
    /\ pc[t].at = "get"
    /\ Len(Q(ChannelOf(pc[t].op))) > 0
    /\ Goto(t, pc[t].op, "store", NoneVal, Head(Q(ChannelOf(pc[t].op))))
    /\ UNCHANGED <<ret, calls, thread, produced, image_queue, nav_queue,
                   remote_queue, cmd_queue, remote_bucket, image, navdata,
                   cmd, default_cmd, ctrlGot>>
    /\ removed' = [removed EXCEPT ![ChannelOf(pc[t].op)] =
                       Head(Q(ChannelOf(pc[t].op)))]
    /\ UNCHANGED featVars

\* faulty variant: get() gives up on an empty queue and yields None
QueueGetTimeout(t) ==
    /\ pc[t].at = "get"
    /\ IF Len(Q(ChannelOf(pc[t].op))) > 0
          THEN /\ SetQ(ChannelOf(pc[t].op), Tail(Q(ChannelOf(pc[t].op))))
               /\ Goto(t, pc[t].op, "store", NoneVal,
                       Head(Q(ChannelOf(pc[t].op))))
          ELSE /\ Goto(t, pc[t].op, "store", NoneVal, NoneVal)
               /\ UNCHANGED <<image_queue, nav_queue, remote_queue>>
    /\ UNCHANGED <<ret, calls, thread, produced, cmd_queue, remote_bucket,
                   image, navdata, cmd, default_cmd, ctrlGot>>
    /\ removed' = [removed EXCEPT ![ChannelOf(pc[t].op)] =
                       IF Len(Q(ChannelOf(pc[t].op))) > 0
                          THEN Head(Q(ChannelOf(pc[t].op)))
                          ELSE removed[ChannelOf(pc[t].op)]]
    /\ UNCHANGED featVars

\* queue.get(): blocks while the queue is empty, then removes the head
QueueGet(t) ==
    /\ pc[t].at = "get"
    /\ Len(Q(ChannelOf(pc[t].op))) > 0
    /\ SetQ(ChannelOf(pc[t].op), Tail(Q(ChannelOf(pc[t].op))))
    /\ Goto(t, pc[t].op, "store", NoneVal, Head(Q(ChannelOf(pc[t].op))))
    /\ UNCHANGED <<ret, calls, thread, produced, cmd_queue, remote_bucket,
                   image, navdata, cmd, default_cmd, ctrlGot>>
    /\ removed' = [removed EXCEPT ![ChannelOf(pc[t].op)] =
                       Head(Q(ChannelOf(pc[t].op)))]
    /\ UNCHANGED featVars

\* faulty variant: a get call returns the value cached before, the item it
\* took from the queue is dropped
StoreInitOnly(t) ==
    /\ pc[t].at = "store"
    /\ IF pc[t].op \in InitOps
          THEN SetCache(ChannelOf(pc[t].op), tmp[t]) /\ Return(t)
          ELSE /\ UNCHANGED <<image, navdata, cmd>>
               /\ Goto(t, pc[t].op, "ret", NoneVal, tmp[t])
    /\ UNCHANGED <<ret, calls, thread, produced, image_queue, nav_queue,
                   remote_queue, cmd_queue, remote_bucket, default_cmd,
                   ctrlGot>>
    /\ UNCHANGED <<removed, featVars>>

\* self.image = <result of get()> (likewise self.navdata, self.cmd); the
\* init calls return here
Store(t) ==
    /\ pc[t].at = "store"
    /\ SetCache(ChannelOf(pc[t].op), tmp[t])
    /\ IF pc[t].op \in InitOps
          THEN Return(t)
          ELSE Goto(t, pc[t].op, "ret", NoneVal, tmp[t])
    /\ UNCHANGED <<ret, calls, thread, produced, image_queue, nav_queue,
                   remote_queue, cmd_queue, remote_bucket, default_cmd,
                   ctrlGot>>
    /\ UNCHANGED <<removed, featVars>>

\* return self.image (likewise self.navdata, self.cmd)
ReturnCached(t) ==
    /\ pc[t].at = "ret"
    /\ ret' = [ret EXCEPT ![t] = Cache(ChannelOf(pc[t].op))]
    /\ Return(t)
    /\ UNCHANGED <<calls, thread, produced, image_queue, nav_queue,
                   remote_queue, cmd_queue, remote_bucket, image, navdata,
                   cmd, default_cmd, ctrlGot>>
    /\ UNCHANGED <<removed, featVars>>

\* the part of send_cmd and of every intent before self.cmd_queue.put:
\* cmd_json = json.dumps(cmd); the attribute cmd_queue does not exist before
\* init_controller
BuildCmd(t, op, a, c) ==
    /\ Call(t)
    /\ IF thread["controller"] = "none"
          THEN Raise(t, op, "AttributeError")
          ELSE Goto(t, op, "put", a, JsonDumps(c))
    /\ UNCHANGED <<thread, produced, image_queue, nav_queue, remote_queue,
                   cmd_queue, remote_bucket, image, navdata, cmd, ctrlGot>>
    /\ UNCHANGED <<removed, featVars>>

send_cmd(t, c) ==
    /\ BuildCmd(t, "send_cmd", c, c)
    /\ UNCHANGED default_cmd

\* faulty variant: the command is built on self.default_cmd itself, not on
\* a copy
IntentNoCopy(t, i, s) ==
    /\ BuildCmd(t, i, s, IntentCmd(default_cmd, i, s))
    /\ default_cmd' = IntentCmd(default_cmd, i, s)

\* land, takeoff, stop, turn_*, fly_*: the command is built on a copy of
\* self.default_cmd
Intent(t, i, s) ==
    /\ BuildCmd(t, i, s, IntentCmd(default_cmd, i, s))
    /\ UNCHANGED default_cmd

\* self.cmd_queue.put(cmd_json): blocks while the queue is full
CmdPut(t) ==
    /\ pc[t].at = "put"
    /\ ~QueueFull(cmd_queue, CmdQueueMaxsize)
    /\ cmd_queue' = QueuePut(cmd_queue, tmp[t])
    /\ Return(t)
    /\ UNCHANGED <<ret, calls, thread, produced, image_queue, nav_queue,
                   remote_queue, remote_bucket, image, navdata, cmd,
                   default_cmd, ctrlGot>>
    /\ UNCHANGED <<removed, featVars>>

\* change_camera: self.fly does not exist, the first statement raises
change_camera(t, c) ==
    /\ Call(t)
    /\ Raise(t, "change_camera", "AttributeError")
    /\ UNCHANGED <<thread, produced, image_queue, nav_queue, remote_queue,
                   cmd_queue, remote_bucket, image, navdata, cmd,
                   default_cmd, ctrlGot>>
    /\ UNCHANGED <<removed, featVars>>

\* bound boxes a caller hands to init_tracking: None, or a sequence of
\* points, each a sequence of coordinates
BoxNone == [none |-> TRUE, pts |-> <<>>]
SamplePoints == {<<0>>, <<0, 0>>, <<1, 1>>, <<0, 1, 1>>}
SampleBoxes ==
    {BoxNone} \cup
    {[none |-> FALSE, pts |-> p] :
        p \in {<<>>} \cup {<<a>> : a \in SamplePoints}
               \cup {<<a, b>> : a, b \in SamplePoints}
               \cup {<<a, a, a>> : a \in SamplePoints}}

\* faulty variant: the lengths of the two points are not checked
InitTrackingNoPointCheck(t, b) ==
    /\ Enter(t)
    /\ IF image = NoneVal
          THEN Raise(t, "init_tracking", "AssertionError")
          ELSE IF b.none \/ Len(b.pts) # 2
                  THEN Raise(t, "init_tracking", "BoundingBoxError")
                  ELSE Goto(t, "init_tracking", "construct", b, NoneVal)
    /\ UNCHANGED <<thread, produced, image_queue, nav_queue, remote_queue,
                   cmd_queue, remote_bucket, image, navdata, cmd,
                   default_cmd, ctrlGot, removed, featVars>>

\* init_tracking up to the construction of the tracker: the assertion on
\* self.image, then the checks of bound_box in the order of the code
init_tracking(t, b) ==
    /\ Enter(t)
    /\ IF image = NoneVal
          THEN Raise(t, "init_tracking", "AssertionError")
          ELSE IF b.none
                  THEN Raise(t, "init_tracking", "BoundingBoxError")
          ELSE IF Len(b.pts) # 2
                  THEN Raise(t, "init_tracking", "BoundingBoxError")
          ELSE IF Len(b.pts[1]) # 2 \/ Len(b.pts[2]) # 2
                  THEN Raise(t, "init_tracking", "BoundingBoxError")
                  ELSE Goto(t, "init_tracking", "construct", b, NoneVal)
    /\ UNCHANGED <<thread, produced, image_queue, nav_queue, remote_queue,
                   cmd_queue, remote_bucket, image, navdata, cmd,
                   default_cmd, ctrlGot, removed, featVars>>

\* self.tracking = cam_shift.CamShift(self.image, bound_box[0], bound_box[1]):
\* the tracker rejects corners that do not form a rectangle
CamShiftInit(t) ==
    /\ pc[t] = [op |-> "init_tracking", at |-> "construct"]
    /\ IF \E k \in 1..2 : arg[t].pts[1][k] = arg[t].pts[2][k]
          THEN /\ Raise(t, "init_tracking", "CamShiftError")
               /\ UNCHANGED tracking
          ELSE /\ tracking' = <<[frame |-> image, corner1 |-> arg[t].pts[1],
                                 corner2 |-> arg[t].pts[2]]>>
               /\ Return(t)
    /\ UNCHANGED <<ret, calls, thread, produced, image_queue, nav_queue,
                   remote_queue, cmd_queue, remote_bucket, image, navdata,
                   cmd, default_cmd, ctrlGot, removed, extractors, geom,
                   windows>>

\* init_feature_extract: the assertions on self.image and self.navdata, the
\* grid of the frame, its window [1][1], then the extractors are created
init_feature_extract(t) ==
    /\ Enter(t)
    /\ IF image = NoneVal \/ navdata = NoneVal
          THEN Raise(t, "init_feature_extract", "AssertionError") /\ UNCHANGED extractors
          ELSE IF GridError(FrameGeom)
                  THEN Raise(t, "init_feature_extract", "ConfigurationError") /\ UNCHANGED extractors
          ELSE IF FrameGeom.R < 2 \/ FrameGeom.C < 2
                  THEN Raise(t, "init_feature_extract", "IndexError") /\ UNCHANGED extractors
                  ELSE /\ extractors' = TRUE
                       /\ Goto(t, "init_feature_extract", "idle", NoneVal, NoneVal)
    /\ UNCHANGED <<thread, produced, image_queue, nav_queue, remote_queue,
                   cmd_queue, remote_bucket, image, navdata, cmd,
                   default_cmd, ctrlGot, removed, tracking, geom, windows>>

\* the dimensionalities the three extractors declare
ExtractorDims == <<4, 3, 2>>

\* one row per window of the grid, one column per extracted feature
FeatureMatrixShape ==
    [rows |-> window_size[1] * window_size[2],
     cols |-> ExtractorDims[1] + ExtractorDims[2] + ExtractorDims[3]]

\* the extractor that would reject a window of the current frame, if any
ExtractorFailures == {"none", "opt_flow", "hough_trans", "laws_mask"}

\* get_visual_features: the assertion on self.image; the assertions on the
\* self.extractor_* attributes, which do not exist before
\* init_feature_extract; the grid of the frame; then np.arrary at line 190,
\* which numpy does not have: the call ends there with AttributeError. The
\* loop over the windows, where extractor fail would raise, the stacking
\* and the return are never reached.
get_visual_features(t, fail) ==
    /\ Enter(t)
    /\ IF image = NoneVal
          THEN Raise(t, "get_visual_features", "AssertionError")
          ELSE IF ~extractors
                  THEN Raise(t, "get_visual_features", "AttributeError")
          ELSE IF GridError(FrameGeom)
                  THEN Raise(t, "get_visual_features", "ConfigurationError")
                  ELSE Raise(t, "get_visual_features", "AttributeError")
    /\ UNCHANGED <<thread, produced, image_queue, nav_queue, remote_queue,
                   cmd_queue, remote_bucket, image, navdata, cmd,
                   default_cmd, ctrlGot, removed, featVars>>

\* check_remote up to the poll of remote_bucket: okay = self.remote.isAlive();
\* the attribute remote does not exist before init_remote
check_remote(t) ==
    /\ Enter(t)
    /\ IF thread["remote"] = "none"
          THEN Raise(t, "check_remote", "AttributeError")
          ELSE Goto(t, "check_remote", "poll", NoneVal,
                    thread["remote"] = "running")
    /\ UNCHANGED <<thread, produced, image_queue, nav_queue, remote_queue,
                   cmd_queue, remote_bucket, image, navdata, cmd,
                   default_cmd, ctrlGot, removed, featVars>>

\* error = self.remote_bucket.get(block=False); raise error. An empty bucket
\* raises Queue.Empty, a pending error is removed and raised; either
\* exception is matched against `except Queue.empty` first, and the module
\* Queue has no attribute empty: evaluating the clause raises AttributeError,
\* which ends the call. `return okay` is never reached.
BucketGetNoWait(t) ==
    /\ pc[t] = [op |-> "check_remote", at |-> "poll"]
    /\ remote_bucket' = IF Len(remote_bucket) > 0
                           THEN Tail(remote_bucket)
                           ELSE remote_bucket
    /\ Raise(t, "check_remote", "AttributeError")
    /\ UNCHANGED <<ret, calls, thread, produced, image_queue, nav_queue,
                   remote_queue, cmd_queue, image, navdata, cmd,
                   default_cmd, ctrlGot, removed, featVars>>

----------------------------------------------------------------------------
(* Steps of the worker threads *)

\* an acquisition thread reads its next unit and puts it on its channel
Produce(x) ==
    /\ thread[x] = "running"
    /\ UnitsRead < MaxUnits
    /\ produced' = [produced EXCEPT ![x] = produced[x] + 1]
    /\ SetQ(x, OverwritePut(Q(x), Maxsize(x), produced[x] + 1))
    /\ UNCHANGED <<pc, arg, tmp, ret, raised, calls, thread, cmd_queue,
                   remote_bucket, image, navdata, cmd, default_cmd, ctrlGot>>
    /\ UNCHANGED <<removed, featVars>>

\* a worker thread terminates (its transport failed or was closed)
Stop(x) ==
    /\ thread[x] = "running"
    /\ thread' = [thread EXCEPT ![x] = "stopped"]
    /\ UNCHANGED <<pc, arg, tmp, ret, raised, calls, produced, image_queue,
                   nav_queue, remote_queue, cmd_queue, remote_bucket, image,
                   navdata, cmd, default_cmd, ctrlGot>>
    /\ UNCHANGED <<removed, featVars>>

\* the remote thread reports an error on its error-report channel: a
\* warning and it goes on, a fatal error and it terminates
RemoteError(warning) ==
    /\ thread["remote"] = "running"
    /\ UnitsRead < MaxUnits
    /\ ~QueueFull(remote_bucket, BucketMaxsize)
    /\ remote_bucket' = QueuePut(remote_bucket, [warning |-> warning])
    /\ thread' = [thread EXCEPT !["remote"] =
                     IF warning THEN "running" ELSE "stopped"]
    /\ UNCHANGED <<pc, arg, tmp, ret, raised, calls, produced, image_queue,
                   nav_queue, remote_queue, cmd_queue, image, navdata, cmd,
                   default_cmd, ctrlGot>>
    /\ UNCHANGED <<removed, featVars>>

\* the controller thread takes the next command from cmd_queue
ControllerGet ==
    /\ thread["controller"] = "running"
    /\ Len(cmd_queue) > 0
    /\ ctrlGot' = <<Head(cmd_queue)>>
    /\ cmd_queue' = Tail(cmd_queue)
    /\ UNCHANGED <<pc, arg, tmp, ret, raised, calls, thread, produced,
                   image_queue, nav_queue, remote_queue, remote_bucket,
                   image, navdata, cmd, default_cmd>>
    /\ UNCHANGED <<removed, featVars>>

----------------------------------------------------------------------------
(* The facade driven by one control loop *)

Facade(t) ==
    \/ init_remote(t)
    \/ init_camera(t)
    \/ init_controller(t)
    \/ init_receiver(t)
    \/ get_navdata(t)
    \/ get_image(t)
    \/ get_cmd(t)
    \/ QueueGet(t)
    \/ Store(t)
    \/ ReturnCached(t)
    \/ \E c \in SampleCmds : send_cmd(t, c)
    \/ \E i \in Intents : \E s \in IntentArgs(i) : Intent(t, i, s)
    \/ CmdPut(t)
    \/ \E c \in cameras : change_camera(t, c)

WorkerThreads ==
    \/ \E x \in Producers : Produce(x)
    \/ \E x \in Workers : Stop(x)
    \/ \E w \in BOOLEAN : RemoteError(w)
    \/ ControllerGet

Next == Facade(MainThread) \/ WorkerThreads

Spec == Init /\ [][Next]_vars

----------------------------------------------------------------------------
(* The image and remote channels read by two threads at once *)

SharedGet(t) ==
    \/ init_remote(t)
    \/ init_camera(t)
    \/ get_image(t)
    \/ get_cmd(t)
    \/ QueueGet(t)
    \/ Store(t)
    \/ ReturnCached(t)

SharedFeed ==
    \/ \E x \in {"camera", "remote"} : Produce(x)
    \/ \E x \in {"camera", "remote"} : Stop(x)

NextMC == (\E t \in Consumers : SharedGet(t)) \/ SharedFeed

SpecMC == Init /\ [][NextMC]_vars

----------------------------------------------------------------------------
(* The remote and its health poll *)

HealthPoll(t) ==
    \/ init_remote(t)
    \/ get_cmd(t)
    \/ QueueGet(t)
    \/ Store(t)
    \/ ReturnCached(t)
    \/ check_remote(t)
    \/ BucketGetNoWait(t)

RemoteThread ==
    \/ Produce("remote")
    \/ Stop("remote")
    \/ \E w \in BOOLEAN : RemoteError(w)

NextHealth == HealthPoll(MainThread) \/ RemoteThread

SpecHealth == Init /\ [][NextHealth]_vars

----------------------------------------------------------------------------
(* Tracking and feature extraction on the cached frame *)

FeaturePipeline(t) ==
    \/ init_camera(t)
    \/ init_receiver(t)
    \/ init_remote(t)
    \/ get_image(t)
    \/ get_navdata(t)
    \/ get_cmd(t)
    \/ QueueGet(t)
    \/ Store(t)
    \/ ReturnCached(t)
    \/ \E b \in SampleBoxes : init_tracking(t, b)
    \/ CamShiftInit(t)
    \/ init_feature_extract(t)
    \/ \E f \in ExtractorFailures : get_visual_features(t, f)

FeatureFeed == \E x \in Producers : Produce(x)

NextFeat == FeaturePipeline(MainThread) \/ FeatureFeed

SpecFeat == Init /\ [][NextFeat]_vars

----------------------------------------------------------------------------
(* get_windows applied to a frame geometry *)

InitGrid ==
    /\ pc = [t \in Consumers |-> Idle]
    /\ arg = [t \in Consumers |-> NoneVal]
    /\ tmp = [t \in Consumers |-> NoneVal]
    /\ ret = [t \in Consumers |-> NoneVal]
    /\ raised = [t \in Consumers |-> "none"]
    /\ calls = 0
    /\ thread = [x \in Workers |-> "none"]
    /\ produced = [x \in Producers |-> 0]
    /\ image_queue = <<>> /\ nav_queue = <<>> /\ remote_queue = <<>>
    /\ cmd_queue = <<>> /\ remote_bucket = <<>>
    /\ image = NoneVal /\ navdata = NoneVal /\ cmd = NoneVal
    /\ default_cmd = DefaultCmd
    /\ ctrlGot = <<>>
    /\ removed = [x \in Producers |-> NoneVal]
    /\ tracking = NoTracking
    /\ extractors = FALSE
    /\ geom \in Geoms
    /\ windows = <<>>

\* windows = camera.Camera.get_windows(image, window_size, overlap)
GridCall(t) ==
    /\ Enter(t)
    /\ pc[t].op = "none"
    /\ windows' = get_windows(geom)
    /\ IF GridError(geom)
          THEN Raise(t, "get_windows", "ConfigurationError")
          ELSE Goto(t, "get_windows", "idle", NoneVal, NoneVal)
    /\ UNCHANGED <<thread, produced, image_queue, nav_queue, remote_queue,
                   cmd_queue, remote_bucket, image, navdata, cmd,
                   default_cmd, ctrlGot, removed, tracking, extractors, geom>>

NextGrid == GridCall(MainThread)

SpecGrid == InitGrid /\ [][NextGrid]_vars

----------------------------------------------------------------------------
(* Properties *)

\* C1: last-write-wins on the command channel. When a command a is pending
\* in cmd_queue and a caller has called send_cmd or an intent with command b
\* (no get by the controller in between), the controller's next get delivers
\* b, not a.
C1_LastWriteWins ==
    [][\A t \in Consumers :
          ( /\ pc[t].at = "put" /\ Len(cmd_queue) = 1
            /\ cmd_queue' = <<>> /\ ControllerGet )
          => ctrlGot' = <<tmp[t]>>]_vars

\* C2: no intent call blocks indefinitely. A call that has reached its put
\* can go on at once, or the controller thread is still there to take the
\* pending command; it is never left waiting on a full queue that nobody
\* will empty.
C2_IntentCallsReturn ==
    \A t \in Consumers :
        pc[t].at = "put" =>
            \/ ~QueueFull(cmd_queue, CmdQueueMaxsize)
            \/ thread["controller"] = "running"

C5_GetBlocksOnEmpty ==
    [][\A t \in Consumers :
          /\ (pc[t].op \in GetOps /\ pc[t].at = "get" /\ pc'[t].at # "get") =>
                LET x == ChannelOf(pc[t].op) IN
                /\ Len(Q(x)) > 0
                /\ tmp'[t] = Head(Q(x))
                /\ Q(x)' = <<>>
                /\ tmp'[t] # NoneVal
                /\ tmp'[t] > Cache(x)
          /\ (pc[t].op \in GetOps /\ pc[t].at = "ret" /\ pc'[t].at = "idle") =>
                ret'[t] = tmp[t]]_vars

\* get_image has returned a frame later than the initial one
C5_Witness ==
    /\ pc[MainThread] = [op |-> "get_image", at |-> "idle"]
    /\ ret[MainThread] > 1
    /\ image_queue = <<>>

\* a get_* call waiting on an empty channel whose thread has stopped
Hung(t) ==
    /\ pc[t].op \in GetOps
    /\ pc[t].at = "get"
    /\ thread[ChannelOf(pc[t].op)] = "stopped"
    /\ Q(ChannelOf(pc[t].op)) = <<>>

\* C6: get() has no timeout. A get_image / get_navdata / get_cmd call that
\* waits on an empty channel whose thread has stopped waits in every later
\* state.
C6_NoTimeoutOnGet ==
    [][\A t \in Consumers : Hung(t) => Hung(t)']_vars

\* get_image waits after the camera thread has stopped
C6_Witness ==
    /\ pc[MainThread].op = "get_image"
    /\ Hung(MainThread)
    /\ image # NoneVal

\* C7: with several threads calling get_image (or get_cmd) at once, no item
\* is returned to two callers.
C7_ExactlyOnceDelivery ==
    \A t1, t2 \in Consumers :
        ( /\ t1 # t2
          /\ pc[t1].at = "idle" /\ pc[t2].at = "idle"
          /\ pc[t1].op \in GetOps /\ pc[t2].op = pc[t1].op
          /\ ret[t1] # NoneVal /\ ret[t2] # NoneVal )
        => ret[t1] # ret[t2]

\* the field an intent controls and the value it is to hold
C8_Field(i) ==
    CASE i = "land" -> "L" [] i = "takeoff" -> "T" [] i = "stop" -> "S"
      [] i \in {"turn_left", "turn_right"} -> "R"
      [] i \in {"fly_up", "fly_down"} -> "Z"
      [] i \in {"fly_forward", "fly_backward"} -> "Y"
      [] i \in {"fly_left", "fly_right"} -> "X"

C8_Value(i, s) ==
    CASE i \in FlagIntents -> TRUE
      [] i \in {"turn_right", "fly_up", "fly_forward", "fly_right"} -> s
      [] i \in {"turn_left", "fly_down", "fly_backward", "fly_left"} -> 0 - s

\* C8: the item an intent puts on cmd_queue is, read back, the neutral
\* default with exactly the intent's field overridden: R = -s for turn_left,
\* R = s for turn_right, Z = s / -s for fly_up / fly_down, Y = s / -s for
\* fly_forward / fly_backward, X = -s / s for fly_left / fly_right, and L, T,
\* S true for land, takeoff, stop.
C8_IntentOverridesOneField ==
    [][\A t \in Consumers :
          (pc[t].op \in Intents /\ pc[t].at = "put" /\ pc'[t].at = "idle") =>
              /\ cmd_queue' = Append(cmd_queue, tmp[t])
              /\ \A k \in CmdKeys :
                    JsonLoads(tmp[t])[k] =
                        IF k = C8_Field(pc[t].op)
                           THEN C8_Value(pc[t].op, arg[t])
                           ELSE DefaultCmd[k]]_vars

\* turn_left(1) has put its command
C8_Witness ==
    /\ pc[MainThread] = [op |-> "turn_left", at |-> "idle"]
    /\ raised[MainThread] = "none"
    /\ cmd_queue = <<JsonDumps([DefaultCmd EXCEPT !.R = -1])>>

\* C9: intent calls are stateless. self.default_cmd keeps its initial
\* neutral value whatever calls were made, and the command an intent is
\* about to put is determined by the intent and its argument alone.
C9_IntentsStateless ==
    /\ default_cmd = DefaultCmd
    /\ \A t \in Consumers :
          (pc[t].op \in Intents /\ pc[t].at = "put") =>
              tmp[t] = JsonDumps(IntentCmd(DefaultCmd, pc[t].op, arg[t]))

\* a second intent is about to put after an earlier command went out
C9_Witness ==
    /\ ctrlGot = <<JsonDumps([DefaultCmd EXCEPT !.L = TRUE])>>
    /\ pc[MainThread] = [op |-> "turn_left", at |-> "put"]

\* C10: change_camera(c), called after init_controller, completes without
\* raising an error (and hands its command to cmd_queue).
C10_ChangeCameraCompletes ==
    \A t \in Consumers :
        ( /\ pc[t] = [op |-> "change_camera", at |-> "idle"]
          /\ thread["controller"] # "none" )
        => raised[t] = "none"

\* C11: when the remote thread has terminated after pushing a fatal error,
\* the poll of check_remote that finds that error (having observed the
\* thread not alive) removes it from remote_bucket and ends the call by
\* raising that fatal error, so a further poll cannot raise it again.
C11_FatalReraisedOnce ==
    [][\A t \in Consumers :
          ( /\ pc[t] = [op |-> "check_remote", at |-> "poll"]
            /\ pc'[t].at = "idle"
            /\ thread["remote"] = "stopped"
            /\ tmp[t] = FALSE
            /\ Len(remote_bucket) > 0
            /\ ~Head(remote_bucket).warning )
          => /\ remote_bucket' = Tail(remote_bucket)
             /\ raised'[t] = "RemoteError" ]_vars

\* C12: a poll of check_remote that finds remote_bucket empty ends the call
\* without any exception and returns the liveness the call observed.
C12_EmptyPollReturnsLiveness ==
    [][\A t \in Consumers :
          ( /\ pc[t] = [op |-> "check_remote", at |-> "poll"]
            /\ pc'[t].at = "idle"
            /\ Len(remote_bucket) = 0 )
          => /\ raised'[t] = "none"
             /\ ret'[t] = tmp[t] ]_vars

\* C13: a poll of check_remote that finds a warning removes it from
\* remote_bucket, does not raise, and returns the liveness the call observed.
C13_WarningSurfacedNoRaise ==
    [][\A t \in Consumers :
          ( /\ pc[t] = [op |-> "check_remote", at |-> "poll"]
            /\ pc'[t].at = "idle"
            /\ Len(remote_bucket) > 0
            /\ Head(remote_bucket).warning )
          => /\ remote_bucket' = Tail(remote_bucket)
             /\ raised'[t] = "none"
             /\ ret'[t] = tmp[t] ]_vars

\* a bound box of exactly two points of length 2
WellFormed(b) ==
    /\ ~b.none
    /\ Len(b.pts) = 2
    /\ \A k \in 1..2 : Len(b.pts[k]) = 2

\* C14: init_tracking, called once the camera is initialised, ends with the
\* bounding-box error and leaves self.tracking as it was when the box is
\* None, has not exactly two elements, or has an element that is not of
\* length 2; a box of exactly two length-2 points, and no other, reaches the
\* construction of the tracker, and self.tracking is set only there.
C14_MalformedBoxRejected ==
    [][\A t \in Consumers :
          /\ \A b \in SampleBoxes :
                ( /\ pc[t].at = "idle"
                  /\ pc'[t].op = "init_tracking"
                  /\ image # NoneVal
                  /\ init_tracking(t, b) )
                => IF WellFormed(b)
                      THEN /\ pc'[t].at = "construct"
                           /\ arg'[t] = b
                           /\ raised'[t] = "none"
                      ELSE /\ pc'[t].at = "idle"
                           /\ raised'[t] = "BoundingBoxError"
                           /\ tracking' = tracking
          /\ (pc'[t].at = "construct") => WellFormed(arg'[t])
          /\ (tracking' # tracking /\ pc[t].op = "init_tracking")
                => pc[t].at = "construct" /\ WellFormed(arg[t]) ]_vars

\* a malformed box was rejected with the camera initialised
C14_Witness ==
    /\ image # NoneVal
    /\ pc[MainThread] = [op |-> "init_tracking", at |-> "idle"]
    /\ raised[MainThread] = "BoundingBoxError"
    /\ tracking = NoTracking

\* C15: a call of get_visual_features made with the camera and the feature
\* extraction initialised returns, without exception, a matrix with one row
\* per window (columns x rows of the grid) and one column per declared
\* feature of the extractors.
C15_FeatureMatrixShape ==
    \A t \in Consumers :
        ( /\ pc[t] = [op |-> "get_visual_features", at |-> "idle"]
          /\ image # NoneVal
          /\ extractors )
        => /\ raised[t] = "none"
           /\ ret[t] = FeatureMatrixShape

\* C16: when an extractor rejects a window during get_visual_features, the
\* call ends with that extraction error, returns no matrix, and leaves the
\* cached frame and the channels as they were.
C16_AllOrNothing ==
    [][\A t \in Consumers : \A f \in ExtractorFailures \ {"none"} :
          ( /\ pc[t].at = "idle"
            /\ pc'[t].op = "get_visual_features"
            /\ image # NoneVal
            /\ extractors
            /\ get_visual_features(t, f) )
          => /\ raised'[t] = "ExtractionError"
             /\ ret'[t] = NoneVal
             /\ UNCHANGED <<image, image_queue, nav_queue, remote_queue,
                            cmd_queue, remote_bucket>> ]_vars

\* the rectangles of a grid: rows of columns of (x0, x1, y0, y1)
GridShape(g, w) ==
    /\ DOMAIN w = 1..g.R
    /\ \A r \in 1..g.R :
          /\ DOMAIN w[r] = 1..g.C
          /\ \A c \in 1..g.C : Len(w[r][c]) = 4

\* every rectangle holds pixels of the frame only, and at least one
GridInside(g, w) ==
    \A r \in 1..g.R : \A c \in 1..g.C :
        /\ 0 <= w[r][c][1] /\ w[r][c][1] < w[r][c][2] /\ w[r][c][2] <= g.W
        /\ 0 <= w[r][c][3] /\ w[r][c][3] < w[r][c][4] /\ w[r][c][4] <= g.H

\* every pixel of the frame lies in some rectangle
GridCovers(g, w) ==
    \A x \in 0..(g.W - 1) : \A y \in 0..(g.H - 1) :
        \E r \in 1..g.R : \E c \in 1..g.C :
            /\ w[r][c][1] <= x /\ x < w[r][c][2]
            /\ w[r][c][3] <= y /\ y < w[r][c][4]

C18_OrderingByAssertions ==
    \A t \in Consumers :
        /\ (pc[t].op = "init_tracking" /\ raised[t] # "AssertionError")
              => (thread["camera"] # "none" /\ image # NoneVal)
        /\ (pc[t].op = "init_feature_extract"
                /\ raised[t] # "AssertionError")
              => /\ thread["camera"] # "none" /\ image # NoneVal
                 /\ thread["receiver"] # "none" /\ navdata # NoneVal
        /\ (pc[t] = [op |-> "get_visual_features", at |-> "idle"]
                /\ ~extractors)
              => raised[t] = "AssertionError"

\* C19: whenever no get() result is waiting to be assigned, self.image is
\* the item a facade call removed last from image_queue (likewise
\* self.navdata and nav_queue, self.cmd and remote_queue); a step of
\* init_tracking or get_visual_features removes nothing from any channel
\* and leaves the caches alone, and the tracker is built on the cached frame.
C19_CachedFrameConsistency ==
    [][ /\ \A x \in Producers :
             (\A t \in Consumers :
                 ~(pc'[t].at = "store" /\ ChannelOf(pc'[t].op) = x))
             => Cache(x)' = removed'[x]
        /\ \A t \in Consumers :
             ( /\ pc'[t].op \in {"init_tracking", "get_visual_features"}
               /\ (pc[t].at = "idle" \/ pc[t].op = pc'[t].op)
               /\ (pc'[t] # pc[t] \/ raised'[t] # raised[t]) )
             => /\ UNCHANGED <<image_queue, nav_queue, remote_queue,
                               cmd_queue, remote_bucket, removed,
                               image, navdata, cmd>>
                /\ (tracking' # tracking) => tracking'[1].frame = image
      ]_vars

\* get_visual_features has run on the cached frame while a newer frame
\* waits in image_queue
C19_Witness ==
    /\ pc[MainThread] = [op |-> "get_visual_features", at |-> "idle"]
    /\ image # NoneVal
    /\ removed["camera"] = image
    /\ Len(image_queue) = 1
    /\ Head(image_queue) > image

\* C20: every command an intent puts on cmd_queue has at most one of the
\* flags T, L, S set, and when one is set its speeds X, Y, Z, R are all 0.
C20_AtMostOneFlag ==
    [][\A t \in Consumers :
          ( /\ pc[t].op \in Intents
            /\ pc[t].at = "put"
            /\ pc'[t].at = "idle"
            /\ Len(cmd_queue') > 0 )
          => LET c == JsonLoads(cmd_queue'[Len(cmd_queue')])
             IN  /\ Cardinality({k \in BoolKeys : c[k]}) <= 1
                 /\ (\E k \in BoolKeys : c[k])
                       => \A k \in {"X", "Y", "Z", "R"} : c[k] = 0 ]_vars

\* the emergency-stop command is on cmd_queue
C20_Witness ==
    /\ pc[MainThread] = [op |-> "stop", at |-> "idle"]
    /\ raised[MainThread] = "none"
    /\ Len(cmd_queue) = 1
    /\ JsonLoads(cmd_queue[1]).S

====
